---- MODULE Spec2Model ----
(***************************************************************************)
(* Order-intake workflow of the NordLayer Telegram bot.                    *)
(*                                                                         *)
(* The model covers the session store (session_manager.py), the order      *)
(* workflow controller (class OrderHandlers: order_handlers_backup.py      *)
(* holds the complete class, order_handlers.py the same confirm_order,     *)
(* validators and start/service handlers) and the transport dispatcher     *)
(* that routes callbacks, text and files to it (main.py).                  *)
(*                                                                         *)
(* Strings are sequences of one-character strings, so that strip(),        *)
(* lower(), endswith() and the regular expressions are computed.           *)
(* An optional value is a sequence of length 0 (None) or 1 (the value).    *)
(***************************************************************************)
EXTENDS Integers, Sequences, FiniteSets, TLC

(***************************************************************************)
(* Bounds of the model.                                                    *)
(***************************************************************************)
\* files a session may hold before the model stops offering uploads
MaxFiles == 2
\* hours the clock may advance
MaxTime == 36
\* hours between two observations of the clock
TickHours == 12

(***************************************************************************)
(* Optional values.                                                        *)
(***************************************************************************)
None == <<>>

Some(x) == <<x>>

IsNone(o) == o = <<>>

Val(o) == o[1]

(***************************************************************************)
(* Strings: characters, strip, lower, endswith.                            *)
(***************************************************************************)
LowerLetters ==
    {"a","b","c","d","e","f","g","h","i","j","k","l","m",
     "n","o","p","q","r","s","t","u","v","w","x","y","z"}

UpperLetters ==
    {"A","B","C","D","E","F","G","H","I","J","K","L","M",
     "N","O","P","Q","R","S","T","U","V","W","X","Y","Z"}

Digits == {"0","1","2","3","4","5","6","7","8","9"}

Whitespace == {" ", "\t", "\n"}

\* str.lower() on one character
LowerChar(c) ==
    CASE c = "A" -> "a" [] c = "B" -> "b" [] c = "C" -> "c" [] c = "D" -> "d"
      [] c = "E" -> "e" [] c = "F" -> "f" [] c = "G" -> "g" [] c = "H" -> "h"
      [] c = "I" -> "i" [] c = "J" -> "j" [] c = "K" -> "k" [] c = "L" -> "l"
      [] c = "M" -> "m" [] c = "N" -> "n" [] c = "O" -> "o" [] c = "P" -> "p"
      [] c = "Q" -> "q" [] c = "R" -> "r" [] c = "S" -> "s" [] c = "T" -> "t"
      [] c = "U" -> "u" [] c = "V" -> "v" [] c = "W" -> "w" [] c = "X" -> "x"
      [] c = "Y" -> "y" [] c = "Z" -> "z" [] OTHER -> c

\* str.lower()
Lower(s) == [i \in 1..Len(s) |-> LowerChar(s[i])]

\* str.strip(): leading and trailing whitespace removed
Strip(s) ==
    LET keep == {i \in 1..Len(s) : s[i] \notin Whitespace}
    IN  IF keep = {} THEN <<>>
        ELSE LET lo == CHOOSE i \in keep : \A j \in keep : i <= j
                 hi == CHOOSE i \in keep : \A j \in keep : j <= i
             IN  SubSeq(s, lo, hi)

\* str.endswith(suffix)
EndsWith(s, suffix) ==
    /\ Len(s) >= Len(suffix)
    /\ SubSeq(s, Len(s) - Len(suffix) + 1, Len(s)) = suffix

AllIn(s, chars) == \A i \in 1..Len(s) : s[i] \in chars

(***************************************************************************)
(* Validators (OrderHandlers._validate_name/_validate_email/_validate_phone*)
(* and the address check of handle_delivery_address).                      *)
(***************************************************************************)
\* [a-zA-Z\s\-'] : the name alphabet (the Cyrillic ranges of the pattern are
\* outside the ASCII alphabet the model draws its inputs from)
NameChars == LowerLetters \cup UpperLetters \cup Whitespace \cup {"-", "'"}

validate_name(name) ==
    /\ name # <<>>
    /\ Len(Strip(name)) >= 2
    /\ Len(Strip(name)) <= 50
    /\ AllIn(Strip(name), NameChars)

\* [a-zA-Z0-9._%+-]
EmailLocalChars == LowerLetters \cup UpperLetters \cup Digits \cup {".", "_", "%", "+", "-"}

\* [a-zA-Z0-9.-]
EmailDomainChars == LowerLetters \cup UpperLetters \cup Digits \cup {".", "-"}

\* ^[a-zA-Z0-9._%+-]+@[a-zA-Z0-9.-]+\.[a-zA-Z]{2,}$
MatchesEmailPattern(s) ==
    \E at \in 1..Len(s) :
        /\ s[at] = "@"
        /\ at > 1
        /\ AllIn(SubSeq(s, 1, at - 1), EmailLocalChars)
        /\ \E dot \in (at + 2)..Len(s) :
              /\ s[dot] = "."
              /\ AllIn(SubSeq(s, at + 1, dot - 1), EmailDomainChars)
              /\ Len(s) - dot >= 2
              /\ AllIn(SubSeq(s, dot + 1, Len(s)), LowerLetters \cup UpperLetters)

validate_email(email) ==
    /\ email # <<>>
    /\ MatchesEmailPattern(Strip(email))

\* re.sub(r'[^\d+]', '', phone)
CleanPhone(phone) == SelectSeq(phone, LAMBDA c : c \in Digits \cup {"+"})

\* ^\+?[1-9]\d{6,14}$
MatchesPhonePattern(s) ==
    LET body == IF s # <<>> /\ s[1] = "+" THEN Tail(s) ELSE s
    IN  /\ Len(body) >= 7
        /\ Len(body) <= 15
        /\ body[1] \in Digits \ {"0"}
        /\ AllIn(body, Digits)

validate_phone(phone) ==
    IF phone = <<>> THEN TRUE
    ELSE MatchesPhonePattern(CleanPhone(phone))

\* handle_delivery_address: len(address.strip()) < 10 is rejected
MinAddressLen == 10

validate_address(address) == Len(Strip(address)) >= MinAddressLen

(***************************************************************************)
(* OrderStep and OrderSession (session_manager.py).                        *)
(***************************************************************************)
START == "start"

SERVICE_SELECTION == "service_selection"

CONTACT_INFO == "contact_info"

FILE_UPLOAD == "file_upload"

SPECIFICATIONS == "specifications"

DELIVERY == "delivery"

CONFIRMATION == "confirmation"

COMPLETED == "completed"

OrderStep ==
    {START, SERVICE_SELECTION, CONTACT_INFO, FILE_UPLOAD, SPECIFICATIONS,
     DELIVERY, CONFIRMATION, COMPLETED}

\* the empty dict
EmptyDict == [k \in {} |-> <<>>]

\* dict[key] = value
DictSet(d, key, value) == (key :> value) @@ d

\* dict.pop(key, None)
DictPop(d, key) == [k \in (DOMAIN d) \ {key} |-> d[k]]

\* OrderSession(user_id=user_id): the dataclass defaults, created_at = datetime.now()
OrderSession(user_id, t) ==
    [user_id          |-> user_id,
     step             |-> START,
     service_id       |-> None,
     service_name     |-> None,
     customer_name    |-> None,
     customer_email   |-> None,
     customer_phone   |-> None,
     files            |-> <<>>,
     specifications   |-> EmptyDict,
     delivery_needed  |-> None,
     delivery_details |-> None,
     created_at       |-> t]

\* truth value of an optional string / of an optional integer, as Python's `not x`
TruthyStr(o) == o # None /\ Val(o) # <<>>

TruthyInt(o) == o # None /\ Val(o) # 0

\* the specifications object of the payload: the session's map, then
\* files_info, order_source and bot_user_id, then the phone when one is given
PayloadSpecifications(session) ==
    (IF TruthyStr(session.customer_phone)
        THEN "customer_phone" :> Val(session.customer_phone)
        ELSE EmptyDict)
    @@ ("files_info" :> session.files
        @@ "order_source" :> "telegram_bot"
        @@ "bot_user_id" :> session.user_id)
    @@ session.specifications

\* delivery keys that say "true" whenever a choice was made
PayloadDelivery_always_true(session) ==
    IF session.delivery_needed # None
        THEN ("delivery_needed" :> "true")
             @@ (IF TruthyStr(session.delivery_details)
                    THEN "delivery_details" :> Val(session.delivery_details)
                    ELSE EmptyDict)
        ELSE EmptyDict

\* the delivery keys of the payload
PayloadDelivery(session) ==
    IF session.delivery_needed # None
        THEN ("delivery_needed" :> IF Val(session.delivery_needed) THEN "true" ELSE "false")
             @@ (IF TruthyStr(session.delivery_details)
                    THEN "delivery_details" :> Val(session.delivery_details)
                    ELSE EmptyDict)
        ELSE EmptyDict

\* OrderSession.to_order_data: the payload, a dict from keys to values
to_order_data(session) ==
    ("customer_contact" :> session.customer_email)
    @@ PayloadDelivery(session)
    @@ ("customer_name" :> session.customer_name
        @@ "customer_email" :> session.customer_email
        @@ "customer_phone" :> session.customer_phone
        @@ "service_id" :> session.service_id
        @@ "source" :> "TELEGRAM"
        @@ "specifications" :> PayloadSpecifications(session))

\* is_complete that also asks for a phone
is_complete_with_phone(session) ==
    /\ session.customer_name # None
    /\ session.customer_email # None
    /\ session.customer_phone # None
    /\ session.service_id # None
    /\ Len(session.files) > 0

\* OrderSession.is_complete
is_complete(session) ==
    /\ session.customer_name # None
    /\ session.customer_email # None
    /\ session.service_id # None
    /\ Len(session.files) > 0

RequiredSpecs == <<"material", "quality", "infill">>

\* _validate_order_data without the check of the files
validate_order_data_without_files(session) ==
    IF ~TruthyStr(session.customer_name) \/ Len(Strip(Val(session.customer_name))) < 2
        THEN "customer_name"
    ELSE IF ~TruthyStr(session.customer_email) \/ ~validate_email(Val(session.customer_email))
        THEN "customer_email"
    ELSE IF ~TruthyInt(session.service_id)
        THEN "service_id"
    ELSE IF TruthyStr(session.customer_phone) /\ ~validate_phone(Val(session.customer_phone))
        THEN "customer_phone"
    ELSE IF DOMAIN session.specifications = {}
        THEN "specifications"
    ELSE IF \E i \in 1..Len(RequiredSpecs) : RequiredSpecs[i] \notin DOMAIN session.specifications
        THEN "required_spec"
    ELSE IF session.delivery_needed = None
        THEN "delivery_needed"
    ELSE IF Val(session.delivery_needed) /\ ~TruthyStr(session.delivery_details)
        THEN "delivery_details"
    ELSE "valid"

\* OrderHandlers._validate_order_data: the first failing check, "valid" for None
validate_order_data(session) ==
    IF ~TruthyStr(session.customer_name) \/ Len(Strip(Val(session.customer_name))) < 2
        THEN "customer_name"
    ELSE IF ~TruthyStr(session.customer_email) \/ ~validate_email(Val(session.customer_email))
        THEN "customer_email"
    ELSE IF ~TruthyInt(session.service_id)
        THEN "service_id"
    ELSE IF session.files = <<>>
        THEN "files"
    ELSE IF TruthyStr(session.customer_phone) /\ ~validate_phone(Val(session.customer_phone))
        THEN "customer_phone"
    ELSE IF DOMAIN session.specifications = {}
        THEN "specifications"
    ELSE IF \E i \in 1..Len(RequiredSpecs) : RequiredSpecs[i] \notin DOMAIN session.specifications
        THEN "required_spec"
    ELSE IF session.delivery_needed = None
        THEN "delivery_needed"
    ELSE IF Val(session.delivery_needed) /\ ~TruthyStr(session.delivery_details)
        THEN "delivery_details"
    ELSE "valid"

(***************************************************************************)
(* State.                                                                  *)
(*   sessions  SessionManager.sessions: a dict from user id to session     *)
(*   now       the wall clock, in hours                                    *)
(*   last      the handler that ran last: its name, user and input, the    *)
(*             time it ran at, the path it took, the create_order calls it *)
(*             made, and the user's stored session when it was entered     *)
(*   inflight  the handler suspended on an external call, if any: its      *)
(*             name, user, input and the session object it holds           *)
(***************************************************************************)
VARIABLES sessions, now, last, inflight

vars == <<sessions, now, last, inflight>>

\* users whose actions the transport delivers
Users == {1}

(***************************************************************************)
(* SessionManager.                                                         *)
(***************************************************************************)
\* SessionManager.get_session: the session, or None
get_session(store, user_id) ==
    IF user_id \in DOMAIN store THEN Some(store[user_id]) ELSE None

\* get_or_create_session in the place of create_session
create_session_reuse(store, user_id, t) ==
    IF user_id \in DOMAIN store THEN store ELSE (user_id :> OrderSession(user_id, t)) @@ store

\* create_session that starts from an empty store
create_session_alone(store, user_id, t) == user_id :> OrderSession(user_id, t)

\* SessionManager.create_session: always overwrites
create_session(store, user_id, t) == (user_id :> OrderSession(user_id, t)) @@ store

\* the store after a mutation of the session object stored for user_id
put(store, user_id, session) == (user_id :> session) @@ store

\* SessionManager.get_or_create_session: the store afterwards
get_or_create_session(store, user_id, t) ==
    IF get_session(store, user_id) = None THEN create_session(store, user_id, t) ELSE store

\* the methods of OrderSession: names for which hasattr(session, name) holds
\* although they are no fields
MethodNames == {"to_order_data", "is_complete", "get_summary"}

\* hasattr(session, key)
HasAttr(session, key) == key \in (DOMAIN session) \cup MethodNames

\* SessionManager.update_session: the store afterwards and the value returned;
\* changes is the kwargs dict, setattr stores every name hasattr accepts
update_session(store, user_id, changes) ==
    LET found == get_session(store, user_id)
    IN  IF found = None THEN [store |-> store, result |-> None]
        ELSE LET session  == Val(found)
                 accepted == {key \in DOMAIN changes : HasAttr(session, key)}
                 updated  == [key \in (DOMAIN session) \cup accepted |->
                                 IF key \in accepted THEN changes[key] ELSE session[key]]
             IN  [store |-> put(store, user_id, updated), result |-> Some(updated)]

\* SessionManager.reset_session_step: the store afterwards and the value returned
reset_session_step(store, user_id, step) ==
    LET found == get_session(store, user_id)
    IN  IF found = None THEN [store |-> store, result |-> None]
        ELSE [store |-> put(store, user_id, [Val(found) EXCEPT !.step = step]),
              result |-> Some([Val(found) EXCEPT !.step = step])]

\* SessionManager.clear_session: the value returned
clear_session_result(store, user_id) == user_id \in DOMAIN store

\* clear_session that empties the whole store
clear_session_all(store, user_id) == EmptyDict

\* clear_session that forgets to delete
clear_session_keep(store, user_id) == store

\* SessionManager.clear_session: the store afterwards
clear_session(store, user_id) ==
    [v \in (DOMAIN store) \ {user_id} |-> store[v]]


\* settings.session_cleanup_hours
session_cleanup_hours == 24

\* a sweep that also removes the sessions of exactly the maximum age
cleanup_old_sessions_inclusive(store, t, max_age_hours) ==
    [v \in {w \in DOMAIN store : ~(t - store[w].created_at >= max_age_hours)} |-> store[v]]

\* cleanup_old_sessions that takes max_age_hours for a number of days
cleanup_old_sessions_in_days(store, t, max_age_hours) ==
    [u \in {v \in DOMAIN store : ~((t - store[v].created_at) > max_age_hours * 24)} |-> store[u]]

\* SessionManager.cleanup_old_sessions at time t: the store afterwards
cleanup_old_sessions(store, t, max_age_hours) ==
    [v \in {w \in DOMAIN store : ~(t - store[w].created_at > max_age_hours)} |-> store[v]]

(***************************************************************************)
(* Inputs the transport may deliver and outcomes the collaborators may     *)
(* produce.                                                                *)
(***************************************************************************)
\* text messages
TextAl == <<" ", "A", "l", " ">>

TextA == <<"A">>

TextA1 == <<"A", "1">>

TextEmail == <<" ", "A", "@", "b", ".", "C", "o", " ">>

TextNoTld == <<"a", "@", "b">>

TextPhone == <<"+", "1", "2", "3", "-", "4", "5", "6", "7">>

TextShortPhone == <<"1", "2", "3">>

TextAddress == <<" ", "M", "a", "i", "n", " ", "S", "t", " ", "1", "2">>

TextShortAddress == <<" ", "M", "a", "i", "n", " ", "S", "t", " ", "1", " ">>

TextInputs ==
    {TextAl, TextA, TextA1, TextEmail, TextNoTld, TextPhone, TextShortPhone,
     TextAddress, TextShortAddress}

\* the texts of an order entered without a mistake
GoodTexts == {TextAl, TextEmail, TextPhone, TextAddress}

\* the texts offered while every button of every screen may be pressed
FlowTexts == GoodTexts \cup {TextShortAddress}

\* service ids a button may carry, and the catalogs get_services may return
ServiceIds == {1, 2}

Catalogs == {{}, {1}}

\* selected_service.get('name', ...)
ServiceName(service_id) == IF service_id = 1 THEN <<"F", "D", "M">> ELSE <<"S", "L", "A">>

\* outcome of api_client.get_services: an exception, or a list of services
CatalogResults ==
    {[ok |-> FALSE, ids |-> {}]} \cup {[ok |-> TRUE, ids |-> c] : c \in Catalogs}

\* 50 * 1024 * 1024
MaxFileSizeBytes == 50 * 1024 * 1024

SupportedFormats == {<<".", "s", "t", "l">>, <<".", "o", "b", "j">>, <<".", "3", "m", "f">>}

\* documents: file_name and file_size are optional in the transport
FileStl == [file_name |-> Some(<<"a", ".", "s", "t", "l">>), file_size |-> Some(1)]

FileObjAtLimit == [file_name |-> Some(<<"B", ".", "O", "B", "J">>), file_size |-> Some(MaxFileSizeBytes)]

FileOverLimit == [file_name |-> Some(<<"c", ".", "3", "m", "f">>), file_size |-> Some(MaxFileSizeBytes + 1)]

FileTxt == [file_name |-> Some(<<"d", ".", "t", "x", "t">>), file_size |-> Some(1)]

FileStlInName == [file_name |-> Some(<<"s", "t", "l", ".", "t", "x">>), file_size |-> Some(1)]

FileNoName == [file_name |-> None, file_size |-> Some(1)]

FileNoSize == [file_name |-> Some(<<"e", ".", "3", "M", "F">>), file_size |-> None]

FileInputs ==
    {FileStl, FileObjAtLimit, FileOverLimit, FileTxt, FileStlInName, FileNoName, FileNoSize}

GoodFiles == {FileStl}

FlowFiles == {FileStl, FileTxt}

\* outcome of bot.get_file / download_as_bytearray / api_client.upload_file
UploadResults == {"ok", "download_failed", "upload_api_error", "upload_error"}

FlowUploads == {"ok", "upload_api_error"}

Materials == {"pla"}

Qualities == {"standard"}

Infills == {"30"}

\* outcome of api_client.create_order: an APIClientError (with a status code or
\* none), another exception, or the value returned: an order record, the record
\* wrapped as {success, data}, {success, data: null}, or a value that is no dict
\* (the body of a reply that is not JSON, a list, null)
CreateResults ==
    {[kind |-> "api_error", status |-> Some(400)],
     [kind |-> "api_error", status |-> Some(500)],
     [kind |-> "api_error", status |-> None],
     [kind |-> "exception", status |-> None],
     [kind |-> "order", status |-> None],
     [kind |-> "wrapped_order", status |-> None],
     [kind |-> "wrapped_null", status |-> None],
     [kind |-> "not_a_dict", status |-> None]}

\* confirmations: the "creating your order" message is sent or fails, and
\* create_order, when it is reached, ends in one of CreateResults
ConfirmAttempts ==
    {[processing |-> FALSE, result |-> [kind |-> "order", status |-> None]]}
        \cup {[processing |-> TRUE, result |-> r] : r \in CreateResults}

\* the backend accepted the order: create_order returned
Accepted(result) == result.kind \in {"order", "wrapped_order", "wrapped_null", "not_a_dict"}

\* result of a handler: the store afterwards, the path taken, create_order calls
\* made, notify_new_order calls made, and the reply to a failed create_order
Result(store, outcome, calls) ==
    [store |-> store, outcome |-> outcome, calls |-> calls, notified |-> 0, reply |-> "none"]

(***************************************************************************)
(* OrderHandlers: forward steps.                                           *)
(***************************************************************************)
\* OrderHandlers.start_order_process
start_order_process(store, user_id, t, catalog) ==
    LET created == create_session(store, user_id, t)
        session == [created[user_id] EXCEPT !.step = SERVICE_SELECTION]
    IN  Result(put(created, user_id, session),
               IF catalog.ok THEN "started" ELSE "started_catalog_failed", 0)

\* handle_service_selection over get_or_create_session
handle_service_selection_creating(store, user_id, service_id, catalog) ==
    LET created == get_or_create_session(store, user_id, 0)
        found == get_session(created, user_id)
    IN  IF ~catalog.ok THEN Result(created, "catalog_failed", 0)
        ELSE IF service_id \notin catalog.ids THEN Result(created, "service_not_found", 0)
        ELSE Result(put(created, user_id,
                        [Val(found) EXCEPT !.service_id = Some(service_id),
                                           !.service_name = Some(ServiceName(service_id)),
                                           !.step = CONTACT_INFO]),
                    "service_selected", 0)

\* OrderHandlers.handle_service_selection
handle_service_selection(store, user_id, service_id, catalog) ==
    LET found == get_session(store, user_id)
    IN  IF found = None THEN Result(store, "session_not_found", 0)
        ELSE IF ~catalog.ok THEN Result(store, "catalog_failed", 0)
        ELSE IF service_id \notin catalog.ids THEN Result(store, "service_not_found", 0)
        ELSE Result(put(store, user_id,
                        [Val(found) EXCEPT !.service_id = Some(service_id),
                                           !.service_name = Some(ServiceName(service_id)),
                                           !.step = CONTACT_INFO]),
                    "service_selected", 0)

\* OrderHandlers.handle_contact_name
handle_contact_name(store, user_id, name) ==
    LET found == get_session(store, user_id)
    IN  IF found = None \/ Val(found).step # CONTACT_INFO THEN Result(store, "invalid_step", 0)
        ELSE IF ~validate_name(name) THEN Result(store, "name_invalid", 0)
        ELSE Result(put(store, user_id, [Val(found) EXCEPT !.customer_name = Some(Strip(name))]),
                    "name_saved", 0)

\* OrderHandlers.handle_contact_email
handle_contact_email(store, user_id, email) ==
    LET found == get_session(store, user_id)
    IN  IF found = None \/ Val(found).step # CONTACT_INFO THEN Result(store, "invalid_step", 0)
        ELSE IF ~validate_email(email) THEN Result(store, "email_invalid", 0)
        ELSE Result(put(store, user_id,
                        [Val(found) EXCEPT !.customer_email = Some(Lower(Strip(email)))]),
                    "email_saved", 0)

\* OrderHandlers.handle_contact_phone
handle_contact_phone(store, user_id, phone) ==
    LET found == get_session(store, user_id)
    IN  IF found = None \/ Val(found).step # CONTACT_INFO THEN Result(store, "invalid_step", 0)
        ELSE IF phone # <<>> /\ ~validate_phone(phone) THEN Result(store, "phone_invalid", 0)
        ELSE Result(put(store, user_id,
                        [Val(found) EXCEPT
                            !.customer_phone = IF phone # <<>> THEN Some(Strip(phone)) ELSE None,
                            !.step = FILE_UPLOAD]),
                    "phone_saved", 0)

\* skip_phone_step that marks the phone as asked for, with an empty value
skip_phone_step_remembered(store, user_id) ==
    LET found == get_session(store, user_id)
    IN  IF found = None \/ Val(found).step # CONTACT_INFO THEN Result(store, "invalid_step", 0)
        ELSE Result(put(store, user_id,
                        [Val(found) EXCEPT !.customer_phone = Some(<<>>), !.step = FILE_UPLOAD]),
                    "phone_skipped", 0)

\* OrderHandlers.skip_phone_step
skip_phone_step(store, user_id) ==
    LET found == get_session(store, user_id)
    IN  IF found = None \/ Val(found).step # CONTACT_INFO THEN Result(store, "invalid_step", 0)
        ELSE Result(put(store, user_id,
                        [Val(found) EXCEPT !.customer_phone = None, !.step = FILE_UPLOAD]),
                    "phone_skipped", 0)

\* filename_lower.endswith(supported_formats)
SupportedFormat(file_name) == \E f \in SupportedFormats : EndsWith(Lower(file_name), f)

\* a size check that never fires
TooLarge_never(file_size) == FALSE

\* file.file_size and file.file_size > 50 * 1024 * 1024
TooLarge(file_size) == TruthyInt(file_size) /\ Val(file_size) > MaxFileSizeBytes

\* the entry appended to session.files
FileInfo(file) == [filename |-> Val(file.file_name), size |-> file.file_size]

\* OrderHandlers.handle_file_upload; formatting the size of a document that
\* carries none raises after the entry was appended
handle_file_upload(store, user_id, file, upload) ==
    LET found == get_session(store, user_id)
    IN  IF found = None \/ Val(found).step # FILE_UPLOAD THEN Result(store, "invalid_step", 0)
        ELSE IF ~TruthyStr(file.file_name) THEN Result(store, "file_not_found", 0)
        ELSE IF ~SupportedFormat(Val(file.file_name)) THEN Result(store, "invalid_format", 0)
        ELSE IF TooLarge(file.file_size) THEN Result(store, "file_too_large", 0)
        ELSE IF upload # "ok" THEN Result(store, upload, 0)
        ELSE Result(put(store, user_id,
                        [Val(found) EXCEPT !.files = Append(@, FileInfo(file))]),
                    IF file.file_size = None THEN "appended_reply_failed" ELSE "file_appended",
                    0)

\* continue_with_files that makes the session younger
continue_with_files_touching(store, user_id) ==
    LET found == get_session(store, user_id)
    IN  IF found = None \/ Val(found).files = <<>> THEN Result(store, "no_files", 0)
        ELSE Result(put(store, user_id,
                        [Val(found) EXCEPT !.step = SPECIFICATIONS,
                                           !.created_at = @ + TickHours]),
                    "continued", 0)

\* OrderHandlers.continue_with_files
continue_with_files(store, user_id) ==
    LET found == get_session(store, user_id)
    IN  IF found = None \/ Val(found).files = <<>> THEN Result(store, "no_files", 0)
        ELSE Result(put(store, user_id, [Val(found) EXCEPT !.step = SPECIFICATIONS]),
                    "continued", 0)

\* OrderHandlers.handle_material_selection
handle_material_selection(store, user_id, material) ==
    LET found == get_session(store, user_id)
    IN  IF found = None \/ Val(found).step # SPECIFICATIONS THEN Result(store, "invalid_step", 0)
        ELSE Result(put(store, user_id,
                        [Val(found) EXCEPT !.specifications = DictSet(@, "material", material)]),
                    "material_saved", 0)

\* OrderHandlers.handle_quality_selection
handle_quality_selection(store, user_id, quality) ==
    LET found == get_session(store, user_id)
    IN  IF found = None \/ Val(found).step # SPECIFICATIONS THEN Result(store, "invalid_step", 0)
        ELSE Result(put(store, user_id,
                        [Val(found) EXCEPT !.specifications = DictSet(@, "quality", quality)]),
                    "quality_saved", 0)

\* OrderHandlers.handle_infill_selection
handle_infill_selection(store, user_id, infill) ==
    LET found == get_session(store, user_id)
    IN  IF found = None \/ Val(found).step # SPECIFICATIONS THEN Result(store, "invalid_step", 0)
        ELSE Result(put(store, user_id,
                        [Val(found) EXCEPT !.specifications = DictSet(@, "infill", infill),
                                           !.step = DELIVERY]),
                    "infill_saved", 0)

\* handle_delivery_pickup that leaves an address entered before in place
handle_delivery_pickup_keep_details(store, user_id) ==
    LET found == get_session(store, user_id)
    IN  IF found = None \/ Val(found).step # DELIVERY THEN Result(store, "invalid_step", 0)
        ELSE Result(put(store, user_id,
                        [Val(found) EXCEPT !.delivery_needed = Some(FALSE),
                                           !.step = CONFIRMATION]),
                    "pickup_chosen", 0)

\* handle_delivery_pickup that records the choice and waits at DELIVERY
handle_delivery_pickup_stay(store, user_id) ==
    LET found == get_session(store, user_id)
    IN  IF found = None \/ Val(found).step # DELIVERY THEN Result(store, "invalid_step", 0)
        ELSE Result(put(store, user_id,
                        [Val(found) EXCEPT !.delivery_needed = Some(FALSE),
                                           !.delivery_details = None]),
                    "pickup_chosen", 0)

\* OrderHandlers.handle_delivery_pickup
handle_delivery_pickup(store, user_id) ==
    LET found == get_session(store, user_id)
    IN  IF found = None \/ Val(found).step # DELIVERY THEN Result(store, "invalid_step", 0)
        ELSE Result(put(store, user_id,
                        [Val(found) EXCEPT !.delivery_needed = Some(FALSE),
                                           !.delivery_details = None,
                                           !.step = CONFIRMATION]),
                    "pickup_chosen", 0)

\* OrderHandlers.handle_delivery_shipping
handle_delivery_shipping(store, user_id) ==
    LET found == get_session(store, user_id)
    IN  IF found = None \/ Val(found).step # DELIVERY THEN Result(store, "invalid_step", 0)
        ELSE Result(put(store, user_id, [Val(found) EXCEPT !.delivery_needed = Some(TRUE)]),
                    "shipping_chosen", 0)

\* handle_delivery_address that stores the address before it checks its length
handle_delivery_address_store_first(store, user_id, address) ==
    LET found == get_session(store, user_id)
    IN  IF found = None \/ Val(found).step # DELIVERY THEN Result(store, "invalid_step", 0)
        ELSE IF ~validate_address(address)
            THEN Result(put(store, user_id,
                            [Val(found) EXCEPT !.delivery_details = Some(Strip(address))]),
                        "address_short", 0)
        ELSE Result(put(store, user_id,
                        [Val(found) EXCEPT !.delivery_details = Some(Strip(address)),
                                           !.step = CONFIRMATION]),
                    "address_saved", 0)

\* OrderHandlers.handle_delivery_address
handle_delivery_address(store, user_id, address) ==
    LET found == get_session(store, user_id)
    IN  IF found = None \/ Val(found).step # DELIVERY THEN Result(store, "invalid_step", 0)
        ELSE IF ~validate_address(address) THEN Result(store, "address_short", 0)
        ELSE Result(put(store, user_id,
                        [Val(found) EXCEPT !.delivery_details = Some(Strip(address)),
                                           !.step = CONFIRMATION]),
                    "address_saved", 0)

(***************************************************************************)
(* OrderHandlers: confirmation, cancellation, navigation.                  *)
(***************************************************************************)
\* order_info.get('id', ...) raises unless order_info is a dict:
\* order_info is created_order.get('data', {}) when created_order is a dict with
\* a true 'success', created_order itself otherwise
OrderInfoIsDict(result) == result.kind \in {"order", "wrapped_order"}

\* OrderHandlers._handle_order_creation_error: the message picked for the error
\* of create_order, sent with the retry / edit / cancel keyboard. An
\* APIClientError without a status code fails the comparison
\* `error.status_code >= 500` with a TypeError, which leaves the handler
\* before anything is sent
handle_order_creation_error(result) ==
    IF result.kind = "api_error"
    THEN IF result.status = Some(400) THEN "data_error"
         ELSE IF result.status = Some(422) THEN "validation_error"
         ELSE IF result.status = None THEN "raised"
         ELSE IF Val(result.status) >= 500 THEN "server_unavailable"
         ELSE "generic_failure"
    ELSE "unexpected_error"

\* confirm_order without the pre-submission validation
confirm_order_unvalidated(store, user_id, processing, result) ==
    LET found == get_session(store, user_id)
    IN  IF found = None \/ Val(found).step # CONFIRMATION THEN Result(store, "invalid_step", 0)
        ELSE IF ~processing THEN Result(store, "processing_message_failed", 0)
        ELSE IF ~Accepted(result) THEN Result(store, "create_failed", 1)
        ELSE IF ~OrderInfoIsDict(result) THEN Result(store, "bad_response", 1)
        ELSE Result(clear_session(store, user_id), "created", 1)

\* confirm_order that drops the session when create_order fails
confirm_order_clear_on_failure(store, user_id, processing, result) ==
    LET found == get_session(store, user_id)
    IN  IF found = None \/ Val(found).step # CONFIRMATION THEN Result(store, "invalid_step", 0)
        ELSE IF validate_order_data(Val(found)) # "valid" THEN Result(store, "validation_failed", 0)
        ELSE IF ~is_complete(Val(found)) THEN Result(store, "incomplete", 0)
        ELSE IF ~processing THEN Result(store, "processing_message_failed", 0)
        ELSE IF ~Accepted(result) THEN Result(clear_session(store, user_id), "create_failed", 1)
        ELSE IF ~OrderInfoIsDict(result) THEN Result(store, "bad_response", 1)
        ELSE Result(clear_session(store, user_id), "created", 1)

\* confirm_order that marks the session COMPLETED and leaves it in the store
confirm_order_keep_completed(store, user_id, processing, result) ==
    LET found == get_session(store, user_id)
    IN  IF found = None \/ Val(found).step # CONFIRMATION THEN Result(store, "invalid_step", 0)
        ELSE IF validate_order_data(Val(found)) # "valid" THEN Result(store, "validation_failed", 0)
        ELSE IF ~is_complete(Val(found)) THEN Result(store, "incomplete", 0)
        ELSE IF ~processing THEN Result(store, "processing_message_failed", 0)
        ELSE IF ~Accepted(result) THEN Result(store, "create_failed", 1)
        ELSE IF ~OrderInfoIsDict(result) THEN Result(store, "bad_response", 1)
        ELSE Result(put(store, user_id, [Val(found) EXCEPT !.step = COMPLETED]), "created", 1)

\* OrderHandlers.confirm_order; processing is TRUE when the "creating your
\* order" message could be sent
confirm_order(store, user_id, processing, result) ==
    LET found == get_session(store, user_id)
    IN  IF found = None \/ Val(found).step # CONFIRMATION THEN Result(store, "invalid_step", 0)
        ELSE IF validate_order_data(Val(found)) # "valid" THEN Result(store, "validation_failed", 0)
        ELSE IF ~is_complete(Val(found)) THEN Result(store, "incomplete", 0)
        ELSE IF ~processing
             THEN [Result(store, "processing_message_failed", 0) EXCEPT
                      !.reply = handle_order_creation_error([kind |-> "exception",
                                                             status |-> None])]
        ELSE IF ~Accepted(result)
             THEN [Result(store, "create_failed", 1) EXCEPT
                      !.reply = handle_order_creation_error(result)]
        ELSE IF ~OrderInfoIsDict(result)
             THEN [Result(store, "bad_response", 1) EXCEPT
                      !.reply = handle_order_creation_error([kind |-> "exception",
                                                             status |-> None])]
        ELSE [Result(clear_session(put(store, user_id,
                                       [Val(found) EXCEPT !.step = COMPLETED]),
                                   user_id),
                     "created", 1) EXCEPT !.notified = 1]

\* OrderHandlers.cancel_order
cancel_order(store, user_id) ==
    Result(clear_session(store, user_id),
           IF user_id \in DOMAIN store THEN "cancelled" ELSE "nothing_to_cancel", 0)

\* TelegramBot.cancel_command
cancel_command(store, user_id) ==
    Result(clear_session(store, user_id),
           IF user_id \in DOMAIN store THEN "cancelled" ELSE "nothing_to_cancel", 0)

\* the steps the back_to_* handlers reset to
BackTargets ==
    {SERVICE_SELECTION, CONTACT_INFO, FILE_UPLOAD, SPECIFICATIONS, DELIVERY, CONFIRMATION}

\* a back navigation that empties the contacts it goes back to
back_to_emptying_contacts(store, user_id, step) ==
    LET found == get_session(store, user_id)
    IN  IF found = None THEN Result(store, "session_not_found", 0)
        ELSE IF step = CONTACT_INFO
        THEN Result(put(store, user_id,
                        [Val(found) EXCEPT !.step = step, !.customer_name = None,
                                           !.customer_email = None]),
                    "went_back", 0)
        ELSE Result(put(store, user_id, [Val(found) EXCEPT !.step = step]), "went_back", 0)

\* a back navigation that also forgets the delivery choice
back_to_forgetting(store, user_id, step) ==
    LET found == get_session(store, user_id)
    IN  IF found = None THEN Result(store, "session_not_found", 0)
        ELSE Result(put(store, user_id,
                        [Val(found) EXCEPT !.step = step, !.delivery_needed = None,
                                           !.delivery_details = None]),
                    "went_back", 0)

\* OrderHandlers.back_to_services .. back_to_confirmation
back_to(store, user_id, step) ==
    LET found == get_session(store, user_id)
    IN  IF found = None THEN Result(store, "session_not_found", 0)
        ELSE Result(put(store, user_id, [Val(found) EXCEPT !.step = step]), "went_back", 0)

\* a pop that takes the oldest entry
PopFirst(files) == SubSeq(files, 2, Len(files))

\* list.pop()
Pop(files) == SubSeq(files, 1, Len(files) - 1)

\* OrderHandlers.remove_last_file
remove_last_file(store, user_id) ==
    LET found == get_session(store, user_id)
    IN  IF found = None \/ Val(found).files = <<>> THEN Result(store, "no_files", 0)
        ELSE Result(put(store, user_id, [Val(found) EXCEPT !.files = Pop(@)]),
                    "file_removed", 0)

\* back_to_material that forgets the quality and keeps the infill
back_to_material_quality_only(store, user_id) ==
    LET found == get_session(store, user_id)
    IN  IF found = None THEN Result(store, "session_not_found", 0)
        ELSE Result(put(store, user_id,
                        [Val(found) EXCEPT !.specifications = DictPop(@, "quality")]),
                    "back_to_material", 0)

\* OrderHandlers.back_to_material
back_to_material(store, user_id) ==
    LET found == get_session(store, user_id)
    IN  IF found = None THEN Result(store, "session_not_found", 0)
        ELSE Result(put(store, user_id,
                        [Val(found) EXCEPT
                            !.specifications = DictPop(DictPop(@, "quality"), "infill")]),
                    "back_to_material", 0)

\* OrderHandlers.back_to_quality: pops infill, then re-enters
\* handle_material_selection with the stored material
back_to_quality(store, user_id) ==
    LET found == get_session(store, user_id)
    IN  IF found # None /\ "material" \in DOMAIN Val(found).specifications
             /\ Val(found).specifications["material"] # ""
        THEN LET popped == put(store, user_id,
                               [Val(found) EXCEPT !.specifications = DictPop(@, "infill")])
                 again  == handle_material_selection(popped, user_id,
                                                     Val(found).specifications["material"])
             IN  Result(again.store, "back_to_quality", 0)
        ELSE Result(store, "no_material", 0)

(***************************************************************************)
(* TelegramBot: routing of text messages and documents.                    *)
(***************************************************************************)
\* a dispatcher that asks for the email before the name
handle_text_message_email_first(store, user_id, text) ==
    LET found == get_session(store, user_id)
    IN  IF found = None THEN Result(store, "no_session", 0)
        ELSE IF Val(found).step = CONTACT_INFO THEN
            IF ~TruthyStr(Val(found).customer_email) THEN handle_contact_email(store, user_id, text)
            ELSE IF ~TruthyStr(Val(found).customer_name)
                THEN handle_contact_name(store, user_id, text)
            ELSE IF Val(found).customer_phone = None
                THEN handle_contact_phone(store, user_id, text)
            ELSE Result(store, "contact_already_collected", 0)
        ELSE IF Val(found).step = DELIVERY /\ Val(found).delivery_needed = Some(TRUE)
            THEN handle_delivery_address(store, user_id, text)
        ELSE Result(store, "use_buttons", 0)

\* TelegramBot.handle_text_message, for a user in neither tracking nor
\* subscription mode
handle_text_message(store, user_id, text) ==
    LET found == get_session(store, user_id)
    IN  IF found = None THEN Result(store, "no_session", 0)
        ELSE IF Val(found).step = CONTACT_INFO THEN
            IF ~TruthyStr(Val(found).customer_name) THEN handle_contact_name(store, user_id, text)
            ELSE IF ~TruthyStr(Val(found).customer_email)
                THEN handle_contact_email(store, user_id, text)
            ELSE IF Val(found).customer_phone = None
                THEN handle_contact_phone(store, user_id, text)
            ELSE Result(store, "contact_already_collected", 0)
        ELSE IF Val(found).step = DELIVERY /\ Val(found).delivery_needed = Some(TRUE)
            THEN handle_delivery_address(store, user_id, text)
        ELSE Result(store, "use_buttons", 0)

\* TelegramBot.handle_file
handle_file(store, user_id, file, upload) ==
    LET found == get_session(store, user_id)
    IN  IF found # None /\ Val(found).step = FILE_UPLOAD
        THEN handle_file_upload(store, user_id, file, upload)
        ELSE Result(store, "outside_order", 0)

(***************************************************************************)
(* Handlers resumed after an external call. A handler keeps the session    *)
(* object it fetched before the call; what it assigns afterwards reaches   *)
(* the store only while the store still holds that object.                 *)
(***************************************************************************)
\* an assignment that stores the held session under its key
Commit_put_back(store, user_id, session) == put(store, user_id, session)

\* an assignment to a field of the held session object
Commit(store, user_id, session) ==
    IF user_id \in DOMAIN store THEN put(store, user_id, session) ELSE store

\* handle_service_selection from the return of get_services on;
\* show_contact_info_collection fetches the session again
handle_service_selection_resumed(store, user_id, held, service_id, catalog) ==
    IF ~catalog.ok THEN Result(store, "catalog_failed", 0)
    ELSE IF service_id \notin catalog.ids THEN Result(store, "service_not_found", 0)
    ELSE LET after == Commit(store, user_id,
                             [held EXCEPT !.service_id = Some(service_id),
                                          !.service_name = Some(ServiceName(service_id)),
                                          !.step = CONTACT_INFO])
         IN  Result(after,
                    IF get_session(after, user_id) = None THEN "session_not_found"
                    ELSE "service_selected", 0)

\* handle_file_upload from the return of upload_file on
handle_file_upload_resumed(store, user_id, held, file, upload) ==
    IF upload # "ok" THEN Result(store, upload, 0)
    ELSE Result(Commit(store, user_id, [held EXCEPT !.files = Append(@, FileInfo(file))]),
                IF file.file_size = None THEN "appended_reply_failed" ELSE "file_appended", 0)

\* confirm_order from the return of create_order on
confirm_order_resumed(store, user_id, held, result) ==
    IF ~Accepted(result)
    THEN [Result(store, "create_failed", 1) EXCEPT !.reply = handle_order_creation_error(result)]
    ELSE IF ~OrderInfoIsDict(result)
    THEN [Result(store, "bad_response", 1) EXCEPT
             !.reply = handle_order_creation_error([kind |-> "exception", status |-> None])]
    ELSE [Result(clear_session(Commit(store, user_id, [held EXCEPT !.step = COMPLETED]),
                               user_id),
                 "created", 1) EXCEPT !.notified = 1]

(***************************************************************************)
(* Actions: one per update the transport delivers.                         *)
(***************************************************************************)
Init ==
    /\ sessions = EmptyDict
    /\ now = 0
    /\ inflight = None
    /\ last = [op |-> "init", user |-> 0, arg |-> None, at |-> 0, outcome |-> "init",
               calls |-> 0, pre |-> None]

\* the handler op, run for user_id on the input arg, returned r
Handled(op, user_id, arg, r) ==
    /\ sessions' = r.store
    /\ last' = [op |-> op, user |-> user_id, arg |-> arg, at |-> now, outcome |-> r.outcome,
                calls |-> r.calls, notified |-> r.notified, reply |-> r.reply,
                pre |-> get_session(sessions, user_id)]
    /\ UNCHANGED <<now, inflight>>

\* /order, or the start_order button
StartOrder(u, catalogs) ==
    \E catalog \in catalogs :
        Handled("start_order", u, catalog, start_order_process(sessions, u, now, catalog))

\* order_select_service_<id> / order_service_<id>
SelectService(u, catalogs) ==
    \E service_id \in ServiceIds, catalog \in catalogs :
        Handled("select_service", u, [service_id |-> service_id, catalog |-> catalog],
                handle_service_selection(sessions, u, service_id, catalog))

TextMessage(u, texts) ==
    \E text \in texts :
        Handled("text", u, text, handle_text_message(sessions, u, text))

SkipPhone(u) == Handled("skip_phone", u, None, skip_phone_step(sessions, u))

\* a document; the model stops offering uploads at MaxFiles stored files
FileMessage(u, files, uploads) ==
    /\ u \in DOMAIN sessions => Len(sessions[u].files) < MaxFiles
    /\ \E file \in files, upload \in uploads :
          Handled("file", u, [file |-> file, upload |-> upload],
                  handle_file(sessions, u, file, upload))

ContinueWithFiles(u) == Handled("continue", u, None, continue_with_files(sessions, u))

ChooseMaterial(u) ==
    \E material \in Materials :
        Handled("material", u, material, handle_material_selection(sessions, u, material))

ChooseQuality(u) ==
    \E quality \in Qualities :
        Handled("quality", u, quality, handle_quality_selection(sessions, u, quality))

ChooseInfill(u) ==
    \E infill \in Infills :
        Handled("infill", u, infill, handle_infill_selection(sessions, u, infill))

ChoosePickup(u) == Handled("pickup", u, None, handle_delivery_pickup(sessions, u))

ChooseShipping(u) == Handled("shipping", u, None, handle_delivery_shipping(sessions, u))

Confirm(u, attempts) ==
    \E attempt \in attempts :
        Handled("confirm", u, attempt,
                confirm_order(sessions, u, attempt.processing, attempt.result))

CancelButton(u) == Handled("cancel", u, None, cancel_order(sessions, u))

CancelCommand(u) == Handled("cancel", u, None, cancel_command(sessions, u))

\* order_back_to_* and order_edit_* buttons
BackTo(u) ==
    \E step \in BackTargets :
        Handled("back_to", u, step, back_to(sessions, u, step))

RemoveLastFile(u) == Handled("remove_last_file", u, None, remove_last_file(sessions, u))

BackToMaterial(u) == Handled("back_to_material", u, None, back_to_material(sessions, u))

BackToQuality(u) == Handled("back_to_quality", u, None, back_to_quality(sessions, u))

(***************************************************************************)
(* The workflow with every button of every screen pressed in any state.    *)
(***************************************************************************)
Next ==
    \E u \in Users :
        \/ StartOrder(u, CatalogResults)
        \/ SelectService(u, CatalogResults)
        \/ TextMessage(u, FlowTexts)
        \/ SkipPhone(u)
        \/ FileMessage(u, FlowFiles, FlowUploads)
        \/ ContinueWithFiles(u)
        \/ ChooseMaterial(u)
        \/ ChooseQuality(u)
        \/ ChooseInfill(u)
        \/ ChoosePickup(u)
        \/ ChooseShipping(u)
        \/ Confirm(u, ConfirmAttempts)
        \/ CancelButton(u)
        \/ CancelCommand(u)
        \/ BackTo(u)
        \/ RemoveLastFile(u)
        \/ BackToMaterial(u)
        \/ BackToQuality(u)

Spec == Init /\ [][Next]_vars

(***************************************************************************)
(* The forward path of the workflow under every input the transport may    *)
(* deliver: texts, documents and upload outcomes of every kind.            *)
(***************************************************************************)
GoodCatalog == {[ok |-> TRUE, ids |-> {1}]}

GoodConfirm == {[processing |-> TRUE, result |-> [kind |-> "order", status |-> None]]}

NextInputs ==
    \E u \in Users :
        \/ StartOrder(u, GoodCatalog)
        \/ SelectService(u, GoodCatalog)
        \/ TextMessage(u, TextInputs)
        \/ SkipPhone(u)
        \/ FileMessage(u, FileInputs, UploadResults)
        \/ ContinueWithFiles(u)
        \/ ChooseMaterial(u)
        \/ ChooseQuality(u)
        \/ ChooseInfill(u)
        \/ ChoosePickup(u)
        \/ ChooseShipping(u)
        \/ Confirm(u, GoodConfirm)
        \/ CancelCommand(u)

SpecInputs == Init /\ [][NextInputs]_vars

(***************************************************************************)
(* The workflow under a running clock and the periodic sweep: orders are   *)
(* entered without input mistakes, time passes between any two updates.    *)
(***************************************************************************)
Tick ==
    /\ now + TickHours <= MaxTime
    /\ now' = now + TickHours
    /\ UNCHANGED <<sessions, last, inflight>>

\* one round of TelegramBot.cleanup_sessions_periodically
Sweep ==
    /\ sessions' = cleanup_old_sessions(sessions, now, session_cleanup_hours)
    /\ last' = [op |-> "sweep", user |-> 0, arg |-> None, at |-> now, outcome |-> "swept",
                calls |-> 0, pre |-> None, before |-> sessions]
    /\ UNCHANGED <<now, inflight>>

NextClock ==
    \/ Tick
    \/ Sweep
    \/ \E u \in Users :
        \/ StartOrder(u, CatalogResults)
        \/ SelectService(u, GoodCatalog)
        \/ TextMessage(u, GoodTexts)
        \/ FileMessage(u, GoodFiles, {"ok"})
        \/ ContinueWithFiles(u)
        \/ ChooseMaterial(u)
        \/ ChooseQuality(u)
        \/ ChooseInfill(u)
        \/ ChoosePickup(u)
        \/ ChooseShipping(u)
        \/ Confirm(u, GoodConfirm)
        \/ CancelButton(u)

SpecClock == Init /\ [][NextClock]_vars

(***************************************************************************)
(* OrderSession on its own: a session is constructed with any field        *)
(* values, as the callers of OrderSession(...) and of the object returned  *)
(* by create_session may, and its methods are applied to it.               *)
(***************************************************************************)
StoreUsers == {1, 2}

\* lists of at most MaxFiles entries of session.files
FileLists ==
    UNION {[1..n -> {FileInfo(FileStl), FileInfo(FileObjAtLimit)}] : n \in 0..MaxFiles}

FullSpecifications == "material" :> "pla" @@ "quality" :> "standard" @@ "infill" :> "30"

SessionInputs ==
    [user_id          : StoreUsers,
     step             : {START, CONFIRMATION},
     service_id       : {None, Some(0), Some(1)},
     service_name     : {None},
     customer_name    : {None, Some(Strip(TextAl))},
     customer_email   : {None, Some(Lower(Strip(TextEmail)))},
     customer_phone   : {None, Some(<<>>), Some(TextPhone)},
     files            : FileLists,
     specifications   : {EmptyDict, "material" :> "pla", FullSpecifications},
     delivery_needed  : {None, Some(TRUE), Some(FALSE)},
     delivery_details : {None, Some(<<>>), Some(Strip(TextAddress))},
     created_at       : {0}]

InitSession ==
    /\ \E session \in SessionInputs : sessions = (session.user_id :> session)
    /\ now = 0
    /\ inflight = None
    /\ last = [op |-> "init", user |-> 0, arg |-> None, at |-> 0, outcome |-> "init",
               calls |-> 0, pre |-> None]

\* session.to_order_data() on the stored session: nothing is assigned
ToOrderData(u) ==
    /\ u \in DOMAIN sessions
    /\ Handled("to_order_data", u, None, Result(sessions, to_order_data(sessions[u]), 0))

\* session.is_complete() on the stored session
IsComplete(u) ==
    /\ u \in DOMAIN sessions
    /\ Handled("is_complete", u, None, Result(sessions, is_complete(sessions[u]), 0))

NextSession ==
    \E u \in StoreUsers :
        \/ ToOrderData(u)
        \/ IsComplete(u)

SpecSession == InitSession /\ [][NextSession]_vars

(***************************************************************************)
(* SessionManager on its own: its operations are called in any order for   *)
(* two users while the clock runs.                                         *)
(***************************************************************************)
\* kwargs of update_session: known fields with an unknown name, an unknown
\* name alone, the key field, the name of a method
UpdateInputs ==
    {"step" :> DELIVERY @@ "delivery_needed" :> Some(TRUE) @@ "nickname" :> "x",
     "invalid_field" :> "x",
     "user_id" :> 2,
     "is_complete" :> "x"}

ResetSteps == {CONFIRMATION}

MaxAges == {session_cleanup_hours, TickHours}

\* the store operation op, called for user_id with arg at the store before,
\* left the store after and returned result
Called(op, user_id, arg, after, result) ==
    /\ sessions' = after
    /\ last' = [op |-> op, user |-> user_id, arg |-> arg, at |-> now, outcome |-> result,
                calls |-> 0, pre |-> get_session(sessions, user_id), before |-> sessions]
    /\ UNCHANGED <<now, inflight>>

CreateSession(u) ==
    Called("create_session", u, None, create_session(sessions, u, now),
           Some(create_session(sessions, u, now)[u]))

GetSession(u) == Called("get_session", u, None, sessions, get_session(sessions, u))

GetOrCreateSession(u) ==
    Called("get_or_create_session", u, None, get_or_create_session(sessions, u, now),
           Some(get_or_create_session(sessions, u, now)[u]))

UpdateSession(u) ==
    \E changes \in UpdateInputs :
        Called("update_session", u, changes, update_session(sessions, u, changes).store,
               update_session(sessions, u, changes).result)

ResetSessionStep(u) ==
    \E step \in ResetSteps :
        Called("reset_session_step", u, step, reset_session_step(sessions, u, step).store,
               reset_session_step(sessions, u, step).result)

ClearSession(u) ==
    Called("clear_session", u, None, clear_session(sessions, u),
           clear_session_result(sessions, u))

CleanupOldSessions ==
    \E max_age_hours \in MaxAges :
        Called("cleanup_old_sessions", 0, max_age_hours,
               cleanup_old_sessions(sessions, now, max_age_hours), None)

NextStore ==
    \/ Tick
    \/ CleanupOldSessions
    \/ \E u \in StoreUsers :
        \/ CreateSession(u)
        \/ GetSession(u)
        \/ GetOrCreateSession(u)
        \/ UpdateSession(u)
        \/ ResetSessionStep(u)
        \/ ClearSession(u)

SpecStore == Init /\ [][NextStore]_vars

(***************************************************************************)
(* Two users at once: the transport delivers the updates of both in any    *)
(* order. The first enters an order of one file without input mistakes,    *)
(* goes back, cancels, and confirms with the backend accepting, failing or *)
(* answering badly; the second starts and cancels orders meanwhile.        *)
(***************************************************************************)
UsersConfirm ==
    {[processing |-> TRUE, result |-> [kind |-> "order", status |-> None]],
     [processing |-> TRUE, result |-> [kind |-> "api_error", status |-> Some(500)]],
     [processing |-> TRUE, result |-> [kind |-> "not_a_dict", status |-> None]]}

NextUsers ==
    \/ \E u \in StoreUsers \ Users :
        \/ StartOrder(u, GoodCatalog)
        \/ CancelCommand(u)
    \/ \E u \in Users :
        \/ StartOrder(u, GoodCatalog)
        \/ SelectService(u, GoodCatalog)
        \/ TextMessage(u, GoodTexts)
        \/ SkipPhone(u)
        \/ (u \in DOMAIN sessions => sessions[u].files = <<>>)
              /\ FileMessage(u, GoodFiles, {"ok"})
        \/ ContinueWithFiles(u)
        \/ ChooseMaterial(u)
        \/ ChooseQuality(u)
        \/ ChooseInfill(u)
        \/ ChoosePickup(u)
        \/ ChooseShipping(u)
        \/ Confirm(u, UsersConfirm)
        \/ CancelButton(u)
        \/ BackTo(u)
        \/ RemoveLastFile(u)
        \/ BackToMaterial(u)
        \/ BackToQuality(u)

SpecUsers == Init /\ [][NextUsers]_vars

(***************************************************************************)
(* The workflow under the clock and the sweep, run fairly: time keeps      *)
(* advancing, and cleanup_sessions_periodically loops for as long as the   *)
(* bot runs, so a sweep that has something to remove is not put off for    *)
(* ever. Orders are started while the clock's bound leaves their session   *)
(* room to grow older than session_cleanup_hours.                          *)
(***************************************************************************)
StartInTime(u) ==
    /\ now + session_cleanup_hours + TickHours <= MaxTime
    /\ StartOrder(u, GoodCatalog)

NextSweep ==
    \/ Tick
    \/ Sweep
    \/ \E u \in Users :
        \/ StartInTime(u)
        \/ SelectService(u, GoodCatalog)
        \/ TextMessage(u, GoodTexts)
        \/ FileMessage(u, GoodFiles, {"ok"})
        \/ ContinueWithFiles(u)
        \/ ChooseMaterial(u)
        \/ ChooseQuality(u)
        \/ ChooseInfill(u)
        \/ ChoosePickup(u)
        \/ ChooseShipping(u)
        \/ Confirm(u, UsersConfirm)
        \/ CancelButton(u)

SpecSweep == Init /\ [][NextSweep]_vars /\ WF_vars(Tick) /\ WF_vars(Sweep)

(***************************************************************************)
(* Failed submissions: a session ready to be confirmed, and create_order   *)
(* failing with every error the handler may be given.                      *)
(***************************************************************************)
\* the HTTP statuses _make_request turns into an APIClientError
MinStatus == 400

MaxStatus == 599

\* what leaves APIClient._make_request for a reply with an error status: the
\* APIClientError raised with the status inside the try block is caught by its
\* own `except Exception` and raised again without a status code, as the
\* network errors are
make_request_error(status) == [kind |-> "api_error", status |-> None]

\* the errors create_order may end in: an APIClientError carrying any error
\* status, one without a status, or another exception
ErrorResults ==
    {[kind |-> "api_error", status |-> Some(code)] : code \in MinStatus..MaxStatus}
        \cup {make_request_error(code) : code \in MinStatus..MaxStatus}
        \cup {[kind |-> "exception", status |-> None]}

ErrorAttempts == {[processing |-> TRUE, result |-> r] : r \in ErrorResults}

\* the sessions that pass every check of confirm_order
ReadySessions ==
    {session \in SessionInputs :
        /\ session.user_id \in Users
        /\ session.step = CONFIRMATION
        /\ session.customer_phone = None
        /\ validate_order_data(session) = "valid"
        /\ is_complete(session)}

InitErrors ==
    /\ \E session \in ReadySessions : sessions = (session.user_id :> session)
    /\ now = 0
    /\ inflight = None
    /\ last = [op |-> "init", user |-> 0, arg |-> None, at |-> 0, outcome |-> "init",
               calls |-> 0, pre |-> None]

NextErrors ==
    \E u \in Users :
        \/ Confirm(u, ErrorAttempts)
        \/ CancelButton(u)

SpecErrors == InitErrors /\ [][NextErrors]_vars

(***************************************************************************)
(* The phone validator on its own, applied to one text.                    *)
(***************************************************************************)
MaxPhoneDigits == 16

Repeat(c, n) == [i \in 1..n |-> c]

\* texts of 0..MaxPhoneDigits digits starting with 0 or 1, with or without a
\* leading "+" or blank, a separator or a letter after the first digit, and a
\* trailing "+"
PhoneInputs ==
    {lead \o (IF n = 0 THEN <<>> ELSE <<first>> \o inner \o Repeat("2", n - 1)) \o trail :
        lead \in {<<>>, <<"+">>, <<" ">>}, first \in {"0", "1"},
        inner \in {<<>>, <<"-">>, <<"a">>}, n \in 0..MaxPhoneDigits,
        trail \in {<<>>, <<"+">>}}

InitPhone ==
    /\ sessions = EmptyDict
    /\ now = 0
    /\ inflight = None
    /\ \E phone \in PhoneInputs :
          last = [op |-> "phone_input", user |-> 0, arg |-> phone, at |-> 0,
                  outcome |-> "pending", calls |-> 0, pre |-> None]

\* self._validate_phone(phone)
ValidatePhone ==
    /\ last.op = "phone_input"
    /\ last' = [last EXCEPT !.op = "validate_phone", !.outcome = validate_phone(last.arg)]
    /\ UNCHANGED <<sessions, now, inflight>>

NextPhone == ValidatePhone

SpecPhone == InitPhone /\ [][NextPhone]_vars

(***************************************************************************)
(* Uploads and removals: files that differ are uploaded, the last one is   *)
(* removed, and the back buttons take the session to any step meanwhile.   *)
(***************************************************************************)
StackFiles == {FileStl, FileObjAtLimit}

NextFiles ==
    \E u \in Users :
        \/ StartOrder(u, GoodCatalog)
        \/ SelectService(u, GoodCatalog)
        \/ TextMessage(u, GoodTexts)
        \/ FileMessage(u, StackFiles, {"ok"})
        \/ RemoveLastFile(u)
        \/ ContinueWithFiles(u)
        \/ BackTo(u)

SpecFiles == Init /\ [][NextFiles]_vars

(***************************************************************************)
(* Handlers in flight: the handlers that wait for the backend (catalog,    *)
(* upload, order submission) are taken in two steps, and the sweep, which  *)
(* runs as a task of its own, may come between the two. Updates are        *)
(* dispatched one at a time, so no other handler runs meanwhile; a handler *)
(* suspended on its final message send has done all its assignments, which *)
(* is the handler run whole and followed by the sweep. The second user     *)
(* starts and cancels orders, so that a sweep finds sessions to leave.     *)
(***************************************************************************)
Suspend(op, user_id, arg) ==
    /\ inflight' = Some([op |-> op, user |-> user_id, arg |-> arg, held |-> sessions[user_id]])
    /\ UNCHANGED <<sessions, now, last>>

\* handle_service_selection waits for get_services
SuspendService(u) ==
    /\ u \in DOMAIN sessions
    /\ \E service_id \in ServiceIds, catalog \in GoodCatalog :
          Suspend("select_service", u, [service_id |-> service_id, catalog |-> catalog])

\* handle_file_upload waits for get_file, the download and upload_file
SuspendFile(u) ==
    /\ u \in DOMAIN sessions
    /\ Len(sessions[u].files) < MaxFiles
    /\ \E file \in GoodFiles, upload \in FlowUploads :
          /\ handle_file(sessions, u, file, "ok").outcome = "file_appended"
          /\ Suspend("file", u, [file |-> file, upload |-> upload])

\* confirm_order waits for create_order
SuspendConfirm(u) ==
    /\ u \in DOMAIN sessions
    /\ \E attempt \in UsersConfirm :
          /\ confirm_order(sessions, u, TRUE, attempt.result).calls = 1
          /\ Suspend("confirm", u, attempt)

\* the external call returned: the rest of the suspended handler
resumed(store, flight) ==
    IF flight.op = "select_service"
    THEN handle_service_selection_resumed(store, flight.user, flight.held,
                                          flight.arg.service_id, flight.arg.catalog)
    ELSE IF flight.op = "file"
    THEN handle_file_upload_resumed(store, flight.user, flight.held,
                                    flight.arg.file, flight.arg.upload)
    ELSE confirm_order_resumed(store, flight.user, flight.held, flight.arg.result)

Resume ==
    /\ inflight # None
    /\ LET flight == Val(inflight)
           r      == resumed(sessions, flight)
       IN  /\ sessions' = r.store
           /\ last' = [op |-> flight.op, user |-> flight.user, arg |-> flight.arg, at |-> now,
                       outcome |-> r.outcome, calls |-> r.calls, notified |-> r.notified,
                       reply |-> r.reply, pre |-> get_session(sessions, flight.user),
                       held |-> flight.held, before |-> sessions]
    /\ inflight' = None
    /\ UNCHANGED now

NextFlight ==
    \/ Sweep
    \/ Resume
    \/ /\ inflight = None
       /\ \/ Tick
          \/ \E u \in StoreUsers \ Users :
                \/ StartOrder(u, GoodCatalog)
                \/ CancelCommand(u)
          \/ \E u \in Users :
                \/ StartOrder(u, GoodCatalog)
                \/ SuspendService(u)
                \/ TextMessage(u, GoodTexts)
                \/ SuspendFile(u)
                \/ ContinueWithFiles(u)
                \/ ChooseMaterial(u)
                \/ ChooseQuality(u)
                \/ ChooseInfill(u)
                \/ ChoosePickup(u)
                \/ SuspendConfirm(u)

SpecFlight == Init /\ [][NextFlight]_vars

(***************************************************************************)
(* Properties of the order workflow.                                       *)
(***************************************************************************)
\* the session stored for the user of the last handler
Stored == get_session(sessions, last.user)

\* the last handler left its user's session, present or absent, as it found it
SessionUnchanged == Stored = last.pre

\* the pre-submission checks, as the contract lists them
SubmissionChecks(session) ==
    /\ session.customer_name # None
    /\ Len(Strip(Val(session.customer_name))) >= 2
    /\ session.customer_email # None
    /\ validate_email(Val(session.customer_email))
    /\ session.service_id # None
    /\ Len(session.files) >= 1
    /\ session.customer_phone # None => validate_phone(Val(session.customer_phone))
    /\ {"material", "quality", "infill"} \subseteq DOMAIN session.specifications
    /\ session.delivery_needed # None
    /\ session.delivery_needed = Some(TRUE) => session.delivery_details # None

\* C1: create_order is called only by confirm_order, and only on a stored
\* session at CONFIRMATION that passes every pre-submission check; a confirm
\* on which a check fails calls nothing and leaves the session unchanged.
C1_CreateOrderOnlyAfterValidation ==
    /\ last.calls > 0 =>
          /\ last.op = "confirm"
          /\ last.pre # None
          /\ Val(last.pre).step = CONFIRMATION
          /\ SubmissionChecks(Val(last.pre))
    /\ (/\ last.op = "confirm"
        /\ \/ last.pre = None
           \/ Val(last.pre).step # CONFIRMATION
           \/ ~SubmissionChecks(Val(last.pre)))
          => last.calls = 0 /\ SessionUnchanged

\* a confirm reached create_order
C1_Witness == last.op = "confirm" /\ last.calls = 1

\* C2: after confirm_order returns from a submission the backend accepted,
\* the store holds no session for the user.
C2_AcceptedOrderClearsSession ==
    (last.op = "confirm" /\ last.calls = 1 /\ Accepted(last.arg.result))
        => last.user \notin DOMAIN sessions

\* C3: when create_order fails, with an APIClientError of any status or none
\* or with another exception, the session stays stored at CONFIRMATION with
\* every field unchanged.
C3_FailedCreateKeepsSession ==
    (last.op = "confirm" /\ last.calls = 1 /\ ~Accepted(last.arg.result))
        => /\ SessionUnchanged
           /\ Stored # None
           /\ Val(Stored).step = CONFIRMATION

\* create_order failed with an APIClientError that carries no status
C3_Witness ==
    /\ last.op = "confirm"
    /\ last.calls = 1
    /\ last.arg.result = [kind |-> "api_error", status |-> None]

\* C4: a stored session at CONFIRMATION has a name, a valid email, at least
\* one file, the three specification keys, a delivery choice, and delivery
\* details when delivery is needed.
C4_ConfirmationSessionComplete ==
    \A u \in DOMAIN sessions :
        sessions[u].step = CONFIRMATION =>
            /\ sessions[u].customer_name # None
            /\ sessions[u].customer_email # None
            /\ validate_email(Val(sessions[u].customer_email))
            /\ Len(sessions[u].files) >= 1
            /\ {"material", "quality", "infill"} \subseteq DOMAIN sessions[u].specifications
            /\ sessions[u].delivery_needed # None
            /\ sessions[u].delivery_needed = Some(TRUE) => sessions[u].delivery_details # None

\* C5: a stored session at FILE_UPLOAD or a later step has a service_id.
C5_LateStepHasService ==
    \A u \in DOMAIN sessions :
        sessions[u].step \in {FILE_UPLOAD, SPECIFICATIONS, DELIVERY, CONFIRMATION, COMPLETED}
            => sessions[u].service_id # None

\* C6: cancellation, by button or by command, is possible in every state,
\* with or without a session; after it the user has no session, and a second
\* cancellation succeeds and changes nothing.
C6_CancelAlwaysClears ==
    /\ \A u \in Users :
          /\ ENABLED CancelButton(u)
          /\ ENABLED CancelCommand(u)
          /\ \A first \in {cancel_order(sessions, u), cancel_command(sessions, u)} :
                /\ get_session(first.store, u) = None
                /\ cancel_order(first.store, u).store = first.store
                /\ cancel_command(first.store, u).store = first.store
                /\ cancel_order(first.store, u).outcome = "nothing_to_cancel"
    /\ last.op = "cancel" =>
          /\ Stored = None
          /\ last.outcome = IF last.pre = None THEN "nothing_to_cancel" ELSE "cancelled"

\* an order ready to be confirmed was cancelled
C6_Witness ==
    /\ last.op = "cancel"
    /\ last.pre # None
    /\ Val(last.pre).step = CONFIRMATION
    /\ last.user \notin DOMAIN sessions

\* the steps at which the transition table accepts the trigger
FromSteps(op) ==
    CASE op = "select_service" -> {SERVICE_SELECTION}
      [] op = "text" -> {CONTACT_INFO, DELIVERY}
      [] op = "skip_phone" -> {CONTACT_INFO}
      [] op \in {"file", "continue"} -> {FILE_UPLOAD}
      [] op \in {"material", "quality", "infill"} -> {SPECIFICATIONS}
      [] op \in {"pickup", "shipping"} -> {DELIVERY}
      [] op = "confirm" -> {CONFIRMATION}
      [] OTHER -> OrderStep

\* C7: a forward trigger that arrives without a session, or at a step other
\* than its From step, leaves the session unchanged.
C7_MisplacedTriggerIgnored ==
    (/\ last.op \in {"select_service", "text", "skip_phone", "file", "continue", "material",
                     "quality", "infill", "pickup", "shipping", "confirm"}
     /\ \/ last.pre = None
        \/ Val(last.pre).step \notin FromSteps(last.op))
        => SessionUnchanged

\* C8: an input that fails its step's validation (name, email, phone, an
\* address shorter than 10 characters after trimming, a file with another
\* extension, a file over the size limit) leaves the session unchanged.
C8_ValidationFailureChangesNothing ==
    /\ last.outcome \in {"name_invalid", "email_invalid", "phone_invalid", "address_short",
                         "invalid_format", "file_too_large"}
          => SessionUnchanged
    /\ (/\ last.op = "text"
        /\ last.pre # None
        /\ Val(last.pre).step = DELIVERY
        /\ Len(Strip(last.arg)) < 10)
          => SessionUnchanged
    /\ (/\ last.op = "file"
        /\ last.arg.file.file_name # None
        /\ \/ \A f \in SupportedFormats : ~EndsWith(Lower(Val(last.arg.file.file_name)), f)
           \/ /\ last.arg.file.file_size # None
              /\ Val(last.arg.file.file_size) > MaxFileSizeBytes)
          => SessionUnchanged

\* an address of ten characters before trimming and nine after was refused
C8_Witness ==
    /\ last.op = "text"
    /\ last.outcome = "address_short"
    /\ Len(last.arg) >= 10
    /\ Val(last.pre).delivery_needed = Some(TRUE)

\* C9: after start_order_process the user's session is a new one: step
\* SERVICE_SELECTION, every collected field initial, created_at the time of
\* the start, whatever session was stored before and whether or not the
\* catalog could be fetched.
C9_StartReplacesSession ==
    last.op = "start_order" =>
        /\ Stored # None
        /\ Val(Stored).user_id = last.user
        /\ Val(Stored).step = SERVICE_SELECTION
        /\ Val(Stored).service_id = None
        /\ Val(Stored).service_name = None
        /\ Val(Stored).customer_name = None
        /\ Val(Stored).customer_email = None
        /\ Val(Stored).customer_phone = None
        /\ Val(Stored).files = <<>>
        /\ DOMAIN Val(Stored).specifications = {}
        /\ Val(Stored).delivery_needed = None
        /\ Val(Stored).delivery_details = None
        /\ Val(Stored).created_at = last.at

\* an older order ready to be confirmed was replaced, the catalog being down
C9_Witness ==
    /\ last.op = "start_order"
    /\ last.outcome = "started_catalog_failed"
    /\ last.pre # None
    /\ Val(last.pre).step = CONFIRMATION
    /\ Val(last.pre).created_at < last.at

\* the document of the last "file" update is one the contract accepts
AcceptableFile ==
    /\ last.pre # None
    /\ Val(last.pre).step = FILE_UPLOAD
    /\ last.arg.file.file_name # None
    /\ \E f \in SupportedFormats : EndsWith(Lower(Val(last.arg.file.file_name)), f)
    /\ last.arg.file.file_size # None => Val(last.arg.file.file_size) <= MaxFileSizeBytes
    /\ last.arg.upload = "ok"

\* C10: a received file is appended to files exactly when the step is
\* FILE_UPLOAD, the name ends, in any case, with .stl, .obj or .3mf, the size
\* is at most 50 MB and the upload succeeds; otherwise files is unchanged;
\* the step is the same afterwards.
C10_FileAppendedIffAccepted ==
    last.op = "file" =>
        /\ AcceptableFile =>
              /\ Stored # None
              /\ Val(Stored) =
                    [Val(last.pre) EXCEPT
                        !.files = Append(@, [filename |-> Val(last.arg.file.file_name),
                                             size |-> last.arg.file.file_size])]
              /\ Val(Stored).step = FILE_UPLOAD
        /\ ~AcceptableFile => SessionUnchanged

\* a second file, upper-case extension and exactly 50 MB, was appended
C10_Witness ==
    /\ last.op = "file"
    /\ last.arg.file = FileObjAtLimit
    /\ Stored # None
    /\ Len(Val(Stored).files) = 2
    /\ Val(Stored).files[2].filename = Val(FileObjAtLimit.file_name)

\* C11: within SPECIFICATIONS a quality choice is accepted only when material
\* is set and an infill choice only when quality is set, so that the infill
\* choice that moves the step to DELIVERY leaves material, quality and infill
\* in the specifications map.
C11_SpecificationsInOrder ==
    /\ last.outcome = "quality_saved"
          => "material" \in DOMAIN Val(last.pre).specifications
    /\ last.outcome = "infill_saved"
          => /\ "quality" \in DOMAIN Val(last.pre).specifications
             /\ Val(Stored).step = DELIVERY
             /\ {"material", "quality", "infill"} \subseteq DOMAIN Val(Stored).specifications

\* C12: a back navigation to a step changes the step of the session and
\* nothing else; without a session it changes nothing.
C12_BackChangesOnlyStep ==
    last.op = "back_to" =>
        IF last.pre = None THEN Stored = None
        ELSE /\ Stored # None
             /\ Val(Stored).step = last.arg
             /\ \A field \in (DOMAIN Val(last.pre)) \ {"step"} :
                   Val(Stored)[field] = Val(last.pre)[field]
             /\ DOMAIN Val(Stored) = DOMAIN Val(last.pre)

\* a complete order with a delivery address went back to the service screen
C12_Witness ==
    /\ last.op = "back_to"
    /\ last.arg = SERVICE_SELECTION
    /\ last.pre # None
    /\ Val(last.pre).step = CONFIRMATION
    /\ Val(last.pre).delivery_details # None
    /\ Val(last.pre).customer_phone # None
    /\ Val(Stored).delivery_details = Val(last.pre).delivery_details

C14_DeliveryDetailsOnlyWhenNeeded ==
    last.op = "to_order_data" =>
        ("delivery_details" \in DOMAIN last.outcome
            => /\ Val(last.pre).delivery_needed = Some(TRUE)
               /\ Val(last.pre).delivery_details # None)

\* C15: the specifications object of the payload has the keys of the
\* session's specifications map, files_info, order_source and bot_user_id,
\* and no other key.
C15_PayloadSpecificationKeys ==
    last.op = "to_order_data" =>
        DOMAIN last.outcome["specifications"]
            = DOMAIN Val(last.pre).specifications
                \cup {"files_info", "order_source", "bot_user_id"}

\* C16: is_complete is true exactly when name, email and service_id are
\* non-null and files is non-empty; phone, specifications, delivery fields
\* and step have no part in it.
C16_IsCompleteIff ==
    /\ last.op = "is_complete" =>
          (last.outcome <=> /\ Val(last.pre).customer_name # None
                            /\ Val(last.pre).customer_email # None
                            /\ Val(last.pre).service_id # None
                            /\ Val(last.pre).files # <<>>)
    /\ \A u \in DOMAIN sessions :
          \A other \in [customer_phone   : {None, Some(<<>>), Some(TextPhone)},
                         specifications   : {EmptyDict, FullSpecifications},
                         delivery_needed  : {None, Some(TRUE), Some(FALSE)},
                         delivery_details : {None, Some(Strip(TextAddress))},
                         step             : OrderStep] :
              is_complete([sessions[u] EXCEPT !.customer_phone = other.customer_phone,
                                              !.specifications = other.specifications,
                                              !.delivery_needed = other.delivery_needed,
                                              !.delivery_details = other.delivery_details,
                                              !.step = other.step])
                  = is_complete(sessions[u])

\* a session with name, email, service and a file but no phone, no
\* specifications and no delivery choice was found complete
C16_Witness ==
    /\ last.op = "is_complete"
    /\ last.outcome = TRUE
    /\ Val(last.pre).customer_phone = None
    /\ DOMAIN Val(last.pre).specifications = {}
    /\ Val(last.pre).delivery_needed = None
    /\ Val(last.pre).step = START

\* the sessions of the users other than the one of the last call are as before
OthersUntouched ==
    \A v \in (DOMAIN last.before) \cup (DOMAIN sessions) :
        v # last.user => get_session(sessions, v) = get_session(last.before, v)

\* C17: clear_session returns true exactly when the user had a session,
\* removes it and touches no other user's session; called again at once it
\* returns false and leaves the store unchanged.
C17_ClearSessionOnce ==
    last.op = "clear_session" =>
        /\ last.outcome = (last.user \in DOMAIN last.before)
        /\ Stored = None
        /\ OthersUntouched
        /\ clear_session_result(sessions, last.user) = FALSE
        /\ clear_session(sessions, last.user) = sessions

\* user 1's session was cleared while user 2 had one
C17_Witness ==
    /\ last.op = "clear_session"
    /\ last.user = 1
    /\ last.outcome = TRUE
    /\ 2 \in DOMAIN sessions

\* C18: update_session on an existing session sets every named field the
\* session has and ignores the other names, adding nothing; without a
\* session it returns absent and creates none.
C18_UpdateSetsKnownFieldsOnly ==
    last.op = "update_session" =>
        /\ OthersUntouched
        /\ IF last.pre = None
              THEN last.outcome = None /\ Stored = None
              ELSE /\ Stored # None
                   /\ last.outcome = Stored
                   /\ DOMAIN Val(Stored) = DOMAIN OrderSession(last.user, 0)
                   /\ \A field \in DOMAIN OrderSession(last.user, 0) :
                         Val(Stored)[field] =
                            IF field \in DOMAIN last.arg THEN last.arg[field]
                            ELSE Val(last.pre)[field]

\* C19: cleanup_old_sessions removes exactly the sessions older than
\* max_age: one of age max_age or less stays, unchanged, and none older
\* remains.
C19_SweepRemovesOlderOnly ==
    last.op = "cleanup_old_sessions" =>
        /\ DOMAIN sessions \subseteq DOMAIN last.before
        /\ \A v \in DOMAIN last.before :
              IF last.at - last.before[v].created_at > last.arg
                  THEN v \notin DOMAIN sessions
                  ELSE v \in DOMAIN sessions /\ sessions[v] = last.before[v]

\* a sweep removed one session and kept one whose age was exactly max_age
C19_Witness ==
    /\ last.op = "cleanup_old_sessions"
    /\ \E v \in DOMAIN last.before : v \notin DOMAIN sessions
    /\ \E v \in DOMAIN sessions : last.at - sessions[v].created_at = last.arg

C21_OtherUsersUntouched ==
    [][\A v \in StoreUsers :
          v # last'.user => get_session(sessions', v) = get_session(sessions, v)]_vars

\* both users are in the middle of an order and one of them was just served
C21_Witness ==
    /\ DOMAIN sessions = StoreUsers
    /\ last.op = "confirm"
    /\ last.outcome = "create_failed"
    /\ last.user = 1

\* C22: notify_new_order is issued exactly once by a confirmation whose
\* create_order call the backend accepted, and by no other confirmation
C22_NotifiedOncePerAcceptedOrder ==
    last.op = "confirm" =>
        last.notified = (IF last.calls = 1 /\ Accepted(last.arg.result) THEN 1 ELSE 0)

\* C23: with time advancing and the sweep recurring, a stored session is
\* eventually absent from the store; so is, in particular, the session that
\* stays behind when the backend accepted the order and the local clear did
\* not run
C23_SessionEventuallyAbsent ==
    \A u \in Users :
        /\ (u \in DOMAIN sessions) ~> (u \notin DOMAIN sessions)
        /\ (last.op = "confirm" /\ last.outcome = "bad_response" /\ u \in DOMAIN sessions)
               ~> (u \notin DOMAIN sessions)

\* the sweep removed a session that was waiting at CONFIRMATION
C23_Witness ==
    /\ last.op = "sweep"
    /\ \E u \in DOMAIN last.before :
          /\ last.before[u].step = CONFIRMATION
          /\ u \notin DOMAIN sessions

\* the last handler gave delivery_needed its first value in a session it found
\* with none
DeliveryNeededSet ==
    /\ last.pre # None
    /\ Stored # None
    /\ Val(last.pre).delivery_needed = None
    /\ Val(Stored).delivery_needed # None

\* C24 (as stated): delivery_needed stays null until the session moves from
\* DELIVERY to CONFIRMATION: a new session has none, and a handler gives it a
\* first value only in a step that makes this transition
C24_DeliveryNeededNullBeforeConfirmation ==
    /\ last.op = "start_order" /\ Stored # None => Val(Stored).delivery_needed = None
    /\ DeliveryNeededSet =>
          Val(last.pre).step = DELIVERY /\ Val(Stored).step = CONFIRMATION

\* C24 (amended): delivery_needed stays null until a delivery choice is made
\* at DELIVERY: a new session has none, and a handler gives it a first value
\* only at DELIVERY, either false with the move to CONFIRMATION (pickup) or
\* true with the session staying at DELIVERY for the address (shipping)
C24_DeliveryNeededNullBeforeChoice ==
    /\ last.op = "start_order" /\ Stored # None => Val(Stored).delivery_needed = None
    /\ DeliveryNeededSet =>
          /\ Val(last.pre).step = DELIVERY
          /\ \/ /\ last.op = "pickup"
                /\ Val(Stored).delivery_needed = Some(FALSE)
                /\ Val(Stored).step = CONFIRMATION
             \/ /\ last.op = "shipping"
                /\ Val(Stored).delivery_needed = Some(TRUE)
                /\ Val(Stored).step = DELIVERY

\* shipping was just chosen: the session waits at DELIVERY for the address
C24_Witness ==
    /\ last.op = "shipping"
    /\ DeliveryNeededSet
    /\ Val(Stored).step = DELIVERY
    /\ Val(Stored).delivery_needed = Some(TRUE)

\* create_order was called by the last confirmation and failed
CreateFailed == last.op = "confirm" /\ last.outcome = "create_failed"

\* the replies of _handle_order_creation_error that come with the
\* retry / edit / cancel keyboard
RepliesWithChoices ==
    {"data_error", "validation_error", "server_unavailable", "generic_failure",
     "unexpected_error"}

\* C25: every failure of create_order, whatever status it carries or none, is
\* answered with a message and the retry / edit / cancel choices, and the
\* error handling does not raise
C25_EveryFailureAnswered == CreateFailed => last.reply \in RepliesWithChoices

\* C26: a failure with a status in 400..499 is shown as a problem with the
\* order's data the user can correct, one with a status >= 500 as a server
\* problem to retry later
C26_ClassifiedByStatus ==
    CreateFailed /\ last.arg.result.kind = "api_error" /\ last.arg.result.status # None =>
        LET code == Val(last.arg.result.status)
        IN  /\ code \in 400..499 => last.reply \in {"data_error", "validation_error"}
            /\ code >= 500 => last.reply = "server_unavailable"

\* the texts the contract accepts as a phone: nothing, or what is left of the
\* text without the characters other than digits and "+" is an optional
\* leading "+" followed by 7 to 15 digits
PhoneAsStated(s) ==
    \/ s = <<>>
    \/ LET kept   == SelectSeq(s, LAMBDA c : c \in Digits \cup {"+"})
           digits == IF kept # <<>> /\ kept[1] = "+" THEN Tail(kept) ELSE kept
       IN  /\ \A i \in 1..Len(digits) : digits[i] \in Digits
           /\ Len(digits) \in 7..15

\* C27: validate_phone accepts exactly the empty text and the texts that,
\* without their characters other than digits and "+", are an optional leading
\* "+" followed by 7 to 15 digits
C27_ValidatePhoneIff ==
    last.op = "validate_phone" => (last.outcome <=> PhoneAsStated(last.arg))

\* the last handler removed the keys gone from the specifications of the
\* session it found and left every other key, and every other field, as it was
RemovedKeys(gone) ==
    /\ Stored # None
    /\ DOMAIN Val(Stored).specifications = DOMAIN Val(last.pre).specifications \ gone
    /\ \A key \in DOMAIN Val(Stored).specifications :
          Val(Stored).specifications[key] = Val(last.pre).specifications[key]
    /\ \A field \in DOMAIN Val(last.pre) \ {"specifications"} :
          Val(Stored)[field] = Val(last.pre)[field]

C29_FilesIsStack ==
    /\ last.op = "remove_last_file" =>
          IF last.pre = None \/ Val(last.pre).files = <<>>
          THEN SessionUnchanged
          ELSE /\ Stored # None
               /\ Val(last.pre).files
                     = Val(Stored).files \o <<Val(last.pre).files[Len(Val(last.pre).files)]>>
               /\ Val(Stored) = [Val(last.pre) EXCEPT !.files = Val(Stored).files]
    /\ last.outcome = "file_appended" =>
          /\ Val(Stored).files = Val(last.pre).files \o <<FileInfo(last.arg.file)>>
          /\ get_session(remove_last_file(sessions, last.user).store, last.user) = last.pre

\* the newer of two different files was removed, away from the upload step
C29_Witness ==
    /\ last.op = "remove_last_file"
    /\ last.pre # None
    /\ Len(Val(last.pre).files) = 2
    /\ Val(last.pre).files[1] # Val(last.pre).files[2]
    /\ Val(last.pre).step # FILE_UPLOAD
    /\ Val(Stored).files = <<Val(last.pre).files[1]>>

\* the steps at which a session waits for the next update
WaitingSteps ==
    {SERVICE_SELECTION, CONTACT_INFO, FILE_UPLOAD, SPECIFICATIONS, DELIVERY, CONFIRMATION}

\* C30: whenever an update is about to be dispatched, every stored session is
\* at one of the six steps SERVICE_SELECTION .. CONFIRMATION: the handlers that
\* pass through START or COMPLETED do not leave a session there
C30_StoredStepsAreWaitingSteps ==
    \A u \in DOMAIN sessions : sessions[u].step \in WaitingSteps

\* an order was just created from a session at CONFIRMATION: the handler
\* marked it COMPLETED, and it is gone
C30_Witness ==
    /\ last.op = "confirm"
    /\ last.outcome = "created"
    /\ last.notified = 1
    /\ Val(last.pre).step = CONFIRMATION
    /\ last.user \notin DOMAIN sessions

\* the last step resumed a handler whose session the sweep had removed
ResumedAfterSweep ==
    /\ last.op \in {"select_service", "file", "confirm"}
    /\ last.pre = None

C32_ContactsBeforeFiles ==
    (/\ last.op \in {"text", "skip_phone"}
     /\ last.pre # None
     /\ Val(last.pre).step = CONTACT_INFO
     /\ Stored # None
     /\ Val(Stored).step = FILE_UPLOAD)
        => /\ Val(last.pre).customer_name # None
           /\ Val(last.pre).customer_email # None

\* C33: in every stored session a customer_email implies a customer_name and a
\* customer_phone implies a customer_email
C33_ContactsInOrder ==
    \A u \in DOMAIN sessions :
        /\ sessions[u].customer_email # None => sessions[u].customer_name # None
        /\ sessions[u].customer_phone # None => sessions[u].customer_email # None

\* the dispatcher just took a text for the phone, the third contact field
C33_Witness ==
    /\ last.op = "text"
    /\ last.outcome = "phone_saved"
    /\ Val(last.pre).customer_phone = None
    /\ Val(Stored).customer_phone # None
    /\ Val(Stored).customer_email # None
    /\ Val(Stored).customer_name # None

\* C34: in every stored session delivery_details is set only if
\* delivery_needed is true; an address is taken only at DELIVERY after
\* shipping was chosen
C34_DetailsOnlyWithShipping ==
    /\ \A u \in DOMAIN sessions :
          sessions[u].delivery_details # None => sessions[u].delivery_needed = Some(TRUE)
    /\ last.outcome = "address_saved" =>
          /\ Val(last.pre).step = DELIVERY
          /\ Val(last.pre).delivery_needed = Some(TRUE)

\* pickup was chosen for a session that held an address, which is gone
C34_Witness ==
    /\ last.op = "pickup"
    /\ last.pre # None
    /\ Val(last.pre).delivery_details # None
    /\ Val(Stored).delivery_details = None
    /\ Val(Stored).delivery_needed = Some(FALSE)

\* the session waits at CONTACT_INFO for the phone: name and email are set
AwaitsPhone(session) ==
    /\ session.step = CONTACT_INFO
    /\ session.customer_name # None
    /\ session.customer_email # None
    /\ session.customer_phone = None

\* C35: a skip leaves customer_phone null, as if the phone had never been
\* asked for: from any session waiting for the phone, skipping and going back
\* to the contacts gives the session as it was, and the next text is checked
\* as a phone, stored with the step moving to FILE_UPLOAD when it is valid
\* and refused when it is not
C35_SkipIsNotRemembered ==
    /\ \A u \in DOMAIN sessions :
          AwaitsPhone(sessions[u]) =>
              LET skipped  == skip_phone_step(sessions, u).store
                  returned == back_to(skipped, u, CONTACT_INFO).store
              IN  /\ skipped[u].step = FILE_UPLOAD
                  /\ skipped[u].customer_phone = None
                  /\ returned = sessions
                  /\ \A text \in {TextPhone, TextShortPhone} :
                        LET r == handle_text_message(returned, u, text)
                        IN  IF validate_phone(text)
                            THEN /\ r.outcome = "phone_saved"
                                 /\ r.store[u].customer_phone = Some(Strip(text))
                                 /\ r.store[u].step = FILE_UPLOAD
                            ELSE r.outcome = "phone_invalid" /\ r.store = returned
    /\ last.op = "text" /\ last.pre # None /\ AwaitsPhone(Val(last.pre))
          => IF validate_phone(last.arg)
             THEN /\ last.outcome = "phone_saved"
                  /\ Val(Stored).customer_phone = Some(Strip(last.arg))
                  /\ Val(Stored).step = FILE_UPLOAD
             ELSE last.outcome = "phone_invalid" /\ SessionUnchanged

\* a session that had gone past the contacts without a phone came back, and
\* the text it was sent was stored as its phone
C35_Witness ==
    /\ last.op = "text"
    /\ last.outcome = "phone_saved"
    /\ AwaitsPhone(Val(last.pre))
    /\ Val(last.pre).files # <<>>
    /\ Val(Stored).customer_phone = Some(Strip(TextPhone))

\* C36: a session that passes the pre-submission validation is complete, so
\* the is_complete check that follows the validation in confirm_order never
\* stops a confirmation
C36_ValidImpliesComplete ==
    \A u \in DOMAIN sessions :
        /\ validate_order_data(sessions[u]) = "valid" => is_complete(sessions[u])
        /\ \A attempt \in ConfirmAttempts :
              confirm_order(sessions, u, attempt.processing, attempt.result).outcome
                  # "incomplete"

\* is_complete was called on a session at CONFIRMATION that passes the
\* validation, and found it complete
C36_Witness ==
    /\ last.op = "is_complete"
    /\ last.outcome = TRUE
    /\ Val(last.pre).step = CONFIRMATION
    /\ validate_order_data(Val(last.pre)) = "valid"

\* C37: once create_order has returned for a session, whatever value it
\* returned, no confirmation of that session calls create_order again
C37_AtMostOneAcceptedOrder ==
    (last.op = "confirm" /\ last.calls = 1 /\ Accepted(last.arg.result))
        => \A attempt \in ConfirmAttempts :
              confirm_order(sessions, last.user, attempt.processing, attempt.result).calls = 0

\* C38: a handler that finds a session with a customer_name (a
\* customer_email) and leaves a session for the user leaves that value in
\* it, unless it starts a new order: back navigation, edit-contacts and text
\* input do not change a name or an email once set
C38_ContactsKeepTheirValue ==
    (last.op # "start_order" /\ last.pre # None /\ Stored # None) =>
        /\ Val(last.pre).customer_name # None
              => Val(Stored).customer_name = Val(last.pre).customer_name
        /\ Val(last.pre).customer_email # None
              => Val(Stored).customer_email = Val(last.pre).customer_email

\* a text arrived for a session that went back to its contacts with name and
\* email set and a phone stored: nothing was taken from it
C38_Witness ==
    /\ last.op = "text"
    /\ last.pre # None
    /\ Val(last.pre).step = CONTACT_INFO
    /\ Val(last.pre).customer_name # None
    /\ Val(last.pre).customer_email # None
    /\ Val(last.pre).customer_phone # None
    /\ last.outcome = "contact_already_collected"
    /\ SessionUnchanged

\* C39: only the start of a new order sets created_at: every other handler
\* leaves it as it was, so that a session older than session_cleanup_hours is
\* removed by the next sweep however recently its user acted, and no session
\* that old is left by a sweep
C39_CreatedAtSetAtStartOnly ==
    /\ (last.op \notin {"start_order", "sweep"} /\ last.pre # None /\ Stored # None)
          => Val(Stored).created_at = Val(last.pre).created_at
    /\ \A u \in DOMAIN sessions :
          /\ sessions[u].created_at <= now
          /\ now - sessions[u].created_at > session_cleanup_hours
                => u \notin DOMAIN cleanup_old_sessions(sessions, now, session_cleanup_hours)
    /\ last.op = "sweep" /\ last.at = now =>
          \A u \in DOMAIN sessions : now - sessions[u].created_at <= session_cleanup_hours

\* the user has just acted on a session that is older than
\* session_cleanup_hours: the next sweep removes it
C39_Witness ==
    /\ last.op \notin {"init", "start_order", "sweep"}
    /\ last.at = now
    /\ last.pre # None
    /\ Stored # None
    /\ Val(Stored) # Val(last.pre)
    /\ now - Val(Stored).created_at > session_cleanup_hours
    /\ last.user \notin DOMAIN cleanup_old_sessions(sessions, now, session_cleanup_hours)

\* C40: only the start of an order adds a session to the store: any other
\* update handled for a user who has no session leaves that user without one
C40_OnlyStartAddsASession ==
    (last.op \notin {"init", "start_order"} /\ last.pre = None) => Stored = None

\* a service was chosen by a user who has no session
C40_Witness ==
    /\ last.op = "select_service"
    /\ last.arg.catalog.ok
    /\ last.arg.service_id \in last.arg.catalog.ids
    /\ last.pre = None
    /\ last.outcome = "session_not_found"
    /\ DOMAIN sessions = {}

====
